---- MODULE Spec2Model ----
(***************************************************************************)
(* EinsteinFinalTorsional (quantum_predefined/..._Einstein_Final_Torsional) *)
(* A metric model: __init__(alpha) stores a name and alpha, and            *)
(* get_metric(r, M_param, C_param, G_param) evaluates                      *)
(*     rs = 2 * G_param * M_param / C_param**2                             *)
(*     m  = 1 - rs/r + self.alpha * (rs/r)**4                              *)
(*     return -m, 1/(m + EPSILON), r**2, torch.zeros_like(r)               *)
(*                                                                         *)
(* Numbers are binary floating-point values of a small IEEE-754 shaped     *)
(* format (PrecBits significand bits, largest exponent ExpTop, gradual     *)
(* underflow, signed zeros, infinities, NaN, round to nearest even).       *)
(* A finite value is sign * n / Unit, n a natural number.                  *)
(***************************************************************************)
EXTENDS Integers, Sequences, FiniteSets, TLC

VARIABLES
  ctor,    \* the argument the constructor was called with (a Python float)
  self,    \* the instance: [name, alpha]
  cls,     \* the class attributes: [sweep, cacheable]
  pc,      \* per thread: where its get_metric call stands
  args,    \* per thread: the arguments of its call, [r, M, C, G]
  frame,   \* per call frame: the locals rs and m
  ret,     \* per thread: what its call returned or raised
  cache,   \* the external framework's memo: (id(self), r, M, C, G) -> 4-tuple
  log      \* the caller's record of the first outcome seen for each input

vars == <<ctor, self, cls, pc, args, frame, ret, cache, log>>

(* ------------------------------------------------------------------ *)
(* Bounds of the model                                                *)
(* ------------------------------------------------------------------ *)

\* significand bits of the floating-point format (24 in float32)
PrecBits == 3
\* largest binary exponent of the format (127 in float32)
ExpTop == 3
\* longest one-dimensional tensor passed to get_metric
MaxLen == 3
\* threads calling get_metric concurrently
NThreads == 2

(* ------------------------------------------------------------------ *)
(* The floating-point format                                          *)
(* ------------------------------------------------------------------ *)

\* fraction bits below 1.0: the smallest subnormal is 2^-FracBits
FracBits == ExpTop + PrecBits - 2
\* units per 1.0
Unit == 2^FracBits
\* the top binade is [2^(PrecBits-1), 2^PrecBits) * 2^TopShift units
TopShift == 2 * ExpTop - 1
\* largest finite magnitude, in units
MaxMag == (2^PrecBits - 1) * 2^TopShift
\* 2^(ExpTop+1) in units: anything that rounds to it or beyond is infinite
TopUnits == 2^(PrecBits + TopShift)

Fin(s, n) == [c |-> "fin", s |-> s, n |-> n]
Inf(s) == [c |-> "inf", s |-> s, n |-> 0]
NaN == [c |-> "nan", s |-> 0, n |-> 0]

IsNaN(a) == a.c = "nan"
IsInf(a) == a.c = "inf"
IsFinite(a) == a.c = "fin"
IsZero(a) == a.c = "fin" /\ a.n = 0

Xor(s, t) == (s + t) % 2

\* the exact value num/den units (num >= 0, den > 0), rounded to the nearest
\* representable value, ties to the even significand, overflow to infinity
Round(s, num, den) ==
  IF num >= den * TopUnits THEN Inf(s)
  ELSE LET k == CHOOSE j \in 0..TopShift :
                  /\ num < den * 2^(PrecBits + j)
                  /\ \A i \in 0..(j - 1) : num >= den * 2^(PrecBits + i)
           step == den * 2^k
           q == num \div step
           rem == num % step
           up == 2 * rem > step \/ (2 * rem = step /\ q % 2 = 1)
           n == (IF up THEN q + 1 ELSE q) * 2^k
       IN  IF n > MaxMag THEN Inf(s) ELSE Fin(s, n)

FNeg(a) == IF IsNaN(a) THEN NaN ELSE [a EXCEPT !.s = 1 - a.s]

FMul(a, b) ==
  IF IsNaN(a) \/ IsNaN(b) THEN NaN
  ELSE IF IsInf(a) \/ IsInf(b)
       THEN IF IsZero(a) \/ IsZero(b) THEN NaN ELSE Inf(Xor(a.s, b.s))
       ELSE Round(Xor(a.s, b.s), a.n * b.n, Unit)

FDiv(a, b) ==
  IF IsNaN(a) \/ IsNaN(b) THEN NaN
  ELSE IF IsInf(a) THEN (IF IsInf(b) THEN NaN ELSE Inf(Xor(a.s, b.s)))
  ELSE IF IsInf(b) THEN Fin(Xor(a.s, b.s), 0)
  ELSE IF b.n = 0 THEN (IF a.n = 0 THEN NaN ELSE Inf(Xor(a.s, b.s)))
  ELSE Round(Xor(a.s, b.s), a.n * Unit, b.n)

Signed(a) == IF a.s = 1 THEN -a.n ELSE a.n

FAdd(a, b) ==
  IF IsNaN(a) \/ IsNaN(b) THEN NaN
  ELSE IF IsInf(a) THEN (IF IsInf(b) /\ a.s # b.s THEN NaN ELSE a)
  ELSE IF IsInf(b) THEN b
  ELSE LET z == Signed(a) + Signed(b)
       IN  IF z = 0 THEN Fin(IF a.s = 1 /\ b.s = 1 THEN 1 ELSE 0, 0)
           ELSE IF z < 0 THEN Round(1, -z, 1) ELSE Round(0, z, 1)

FSub(a, b) == FAdd(a, FNeg(b))

\* x**2 (torch evaluates a square as x * x)
FSquare(a) == FMul(a, a)

\* x**4, rounded once.  n^4 / Unit^3 units; n * n > 46340 would overflow the
\* integers and is far beyond TopUnits * Unit^3, so it is infinite.
FPow4(a) ==
  IF IsNaN(a) THEN NaN
  ELSE IF IsInf(a) THEN Inf(0)
  ELSE IF a.n * a.n > 46340 THEN Inf(0)
  ELSE Round(0, (a.n * a.n) * (a.n * a.n), Unit * Unit * Unit)

FromInt(i) == IF i < 0 THEN Fin(1, (-i) * Unit) ELSE Fin(0, i * Unit)

\* EPSILON, the module-level stability constant: 1/8
EPSILON == Fin(0, Unit \div 8)

Zero == Fin(0, 0)
One == FromInt(1)
Tiny == Fin(0, 1)
Half == Fin(0, Unit \div 2)
Huge == Fin(0, MaxMag)

(* ------------------------------------------------------------------ *)
(* Python floats and torch tensors                                    *)
(* ------------------------------------------------------------------ *)

\* a value is a Python float, a tensor (zero- or one-dimensional), or the
\* exception an expression raised (kind is then the exception's type)
Py(f) == [kind |-> "py", shape |-> <<>>, data |-> <<f>>]
T0(f) == [kind |-> "t", shape |-> <<>>, data |-> <<f>>]
T1(seq) == [kind |-> "t", shape |-> <<Len(seq)>>, data |-> seq]
Exc(e) == [kind |-> e, shape |-> <<>>, data |-> <<>>]

IsExc(a) == a.kind \notin {"py", "t"}
Numel(shape) == IF shape = <<>> THEN 1 ELSE shape[1]
Elem(a, i) == a.data[IF Len(a.data) = 1 THEN 1 ELSE i]

\* torch broadcasting of two shapes of at most one dimension
Compatible(sa, sb) ==
  sa = <<>> \/ sb = <<>> \/ sa[1] = sb[1] \/ sa[1] = 1 \/ sb[1] = 1
BroadcastShape(sa, sb) ==
  IF sa = <<>> THEN sb
  ELSE IF sb = <<>> THEN sa
  ELSE IF sa[1] = 1 THEN sb ELSE sa

PyMul(x, y) == Py(FMul(x, y))
PyAdd(x, y) == Py(FAdd(x, y))
PySub(x, y) == Py(FSub(x, y))
\* float division by zero raises in Python
PyDiv(x, y) == IF IsZero(y) THEN Exc("ZeroDivisionError") ELSE Py(FDiv(x, y))
\* float ** int raises when a finite base overflows
PyPow(x, e) ==
  LET p == IF e = 2 THEN FSquare(x) ELSE FPow4(x)
  IN  IF IsFinite(x) /\ IsInf(p) THEN Exc("OverflowError") ELSE Py(p)

\* the operator op ("*", "/", "+", "-") on two elements of tensors
TorchOp(op, x, y) ==
  CASE op = "*" -> FMul(x, y)
    [] op = "/" -> FDiv(x, y)
    [] op = "+" -> FAdd(x, y)
    [] op = "-" -> FSub(x, y)

\* the operator op on two Python floats
PythonOp(op, x, y) ==
  CASE op = "*" -> PyMul(x, y)
    [] op = "/" -> PyDiv(x, y)
    [] op = "+" -> PyAdd(x, y)
    [] op = "-" -> PySub(x, y)

\* a binary operator: between two Python floats Python evaluates it,
\* otherwise torch evaluates it elementwise on the broadcast operands
Binary(op, a, b) ==
  IF IsExc(a) THEN a
  ELSE IF IsExc(b) THEN b
  ELSE IF a.kind = "py" /\ b.kind = "py" THEN PythonOp(op, a.data[1], b.data[1])
  ELSE IF ~Compatible(a.shape, b.shape) THEN Exc("RuntimeError")
  ELSE LET sh == BroadcastShape(a.shape, b.shape)
       IN  [kind |-> "t", shape |-> sh,
            data |-> [i \in 1..Numel(sh) |-> TorchOp(op, Elem(a, i), Elem(b, i))]]

Mul(a, b) == Binary("*", a, b)
\* variant: a division that refuses a tensor divisor holding a zero
DivChecked(a, b) ==
  IF ~IsExc(a) /\ ~IsExc(b) /\ b.kind = "t" /\ (\E i \in 1..Len(b.data) : IsZero(b.data[i]))
  THEN Exc("ZeroDivisionError")
  ELSE Binary("/", a, b)
Div(a, b) == Binary("/", a, b)
Add(a, b) == Binary("+", a, b)
Sub(a, b) == Binary("-", a, b)

\* a ** e for e = 2 or 4
Pow(a, e) ==
  IF IsExc(a) THEN a
  ELSE IF a.kind = "py" THEN PyPow(a.data[1], e)
  ELSE [a EXCEPT !.data = [i \in 1..Len(a.data) |->
                             IF e = 2 THEN FSquare(a.data[i]) ELSE FPow4(a.data[i])]]

Neg(a) ==
  IF IsExc(a) THEN a
  ELSE [a EXCEPT !.data = [i \in 1..Len(a.data) |-> FNeg(a.data[i])]]

\* variant: a scalar zero in place of zeros shaped like r
ZerosScalar(r) == T0(Zero)

\* torch.zeros_like(r)
ZerosLike(r) == [kind |-> "t", shape |-> r.shape,
                 data |-> [i \in 1..Len(r.data) |-> Zero]]

\* torch.as_tensor(alpha, device=device, dtype=DTYPE): a zero-dimensional tensor
AsTensor(x) == T0(x)

(* ------------------------------------------------------------------ *)
(* __init__                                                           *)
(* ------------------------------------------------------------------ *)

DigitChars == <<"0", "1", "2", "3", "4", "5", "6", "7", "8", "9">>

RECURSIVE Digits(_)
Digits(k) ==
  IF k < 10 THEN <<DigitChars[k + 1]>>
  ELSE Digits(k \div 10) \o <<DigitChars[(k % 10) + 1]>>

\* variant: the decimals cut off instead of rounded
RoundDown(num, den) == num \div den

\* num/den rounded to the nearest integer, ties to even
RoundHalfEven(num, den) ==
  LET q == num \div den
      rem == num % den
  IN  IF 2 * rem > den \/ (2 * rem = den /\ q % 2 = 1) THEN q + 1 ELSE q

SignChar(x) == IF x.s = 1 THEN "-" ELSE "+"

\* format(x, "+.2f"): the exact binary value in fixed point, two decimals,
\* correctly rounded, the sign always written
Format(x) ==
  IF IsNaN(x) THEN <<"+", "n", "a", "n">>
  ELSE IF IsInf(x) THEN <<SignChar(x), "i", "n", "f">>
  ELSE LET h == RoundHalfEven(x.n * 100, Unit)
       IN  <<SignChar(x)>> \o Digits(h \div 100) \o <<".">>
             \o <<DigitChars[((h % 100) \div 10) + 1], DigitChars[(h % 10) + 1]>>

Prefix ==
  <<"E", "i", "n", "s", "t", "e", "i", "n", " ", "F", "i", "n", "a", "l", " ",
    "(", "T", "o", "r", "s", "i", "o", "n", "a", "l", ",", " ", "α", "=">>

\* f"Einstein Final (Torsional, α={alpha:+.2f})"
NameOf(alpha) == Prefix \o Format(alpha) \o <<")">>

\* EinsteinFinalBase.__init__(name) keeps the name it is given
BaseInit(name) == name

\* EinsteinFinalTorsional(alpha)
Construct(alpha) ==
  [name |-> BaseInit(NameOf(alpha)), alpha |-> AsTensor(alpha)]

\* variant: a class body with cacheable = False
ClassAttrsUncached == [sweep |-> "None", cacheable |-> FALSE]

\* the class body: sweep = None, cacheable = True
ClassAttrs == [sweep |-> "None", cacheable |-> TRUE]

(* ------------------------------------------------------------------ *)
(* get_metric                                                         *)
(* ------------------------------------------------------------------ *)

\* rs = 2 * G_param * M_param / C_param**2
Line11Rs(M, C, G) == Div(Mul(Mul(Py(FromInt(2)), G), M), Pow(C, 2))

\* variant: rs/r added instead of subtracted
Line12MPlus(alpha, rs, r) ==
  Add(Add(Py(One), Div(rs, r)), Mul(alpha, Pow(Div(rs, r), 4)))

\* variant: alpha added to the quartic term instead of scaling it
Line12MAlphaAdded(alpha, rs, r) ==
  Add(Sub(Py(One), Div(rs, r)), Add(alpha, Pow(Div(rs, r), 4)))

\* m = 1 - rs/r + self.alpha * (rs/r)**4
Line12M(alpha, rs, r) ==
  Add(Sub(Py(One), Div(rs, r)), Mul(alpha, Pow(Div(rs, r), 4)))

\* variant: EPSILON subtracted in the denominator
Line13TupleMinusEps(m, r) ==
  <<Neg(m), Div(Py(One), Sub(m, Py(EPSILON))), Pow(r, 2), ZerosLike(r)>>

\* return -m, 1/(m + EPSILON), r**2, torch.zeros_like(r)
Line13Tuple(m, r) ==
  <<Neg(m), Div(Py(One), Add(m, Py(EPSILON))), Pow(r, 2), ZerosLike(r)>>

\* variant: a call that squares self.alpha in place
SelfAfterCallSquared(s) == [s EXCEPT !.alpha = Mul(s.alpha, s.alpha)]

\* variant: a call that decrements self.alpha
SelfAfterCallDecremented(s) == [s EXCEPT !.alpha = Sub(s.alpha, Py(One))]

\* get_metric assigns nothing on self
SelfAfterCall(s) == s

\* variant: rs and m kept in one place shared by all calls
FrameShared(t) == 1

\* each call has its own frame for the locals rs and m
FrameOf(t) == t

NoVal == Exc("none")
NoArgs == [r |-> NoVal, M |-> NoVal, C |-> NoVal, G |-> NoVal, memo |-> FALSE]
NoFrame == [rs |-> NoVal, m |-> NoVal]
NoRet == [exc |-> "", val |-> <<>>]
Raised(e) == [exc |-> e.kind, val |-> <<>>]
Returned(tuple) == [exc |-> "", val |-> tuple]

\* what a tuple expression yields: the first exception among its components,
\* or the tuple
TupleOutcome(tuple) ==
  IF \E i \in 1..4 : IsExc(tuple[i])
  THEN Raised(tuple[CHOOSE i \in 1..4 :
                      IsExc(tuple[i]) /\ \A j \in 1..(i - 1) : ~IsExc(tuple[j])])
  ELSE Returned(tuple)

\* one whole call of get_metric on instance s, run alone
GetMetric(s, a) ==
  LET rs == Line11Rs(a.M, a.C, a.G)
  IN  IF IsExc(rs) THEN Raised(rs)
      ELSE LET m == Line12M(s.alpha, rs, a.r)
           IN  IF IsExc(m) THEN Raised(m) ELSE TupleOutcome(Line13Tuple(m, a.r))

Threads == 1..NThreads

Call(t, a) ==
  /\ pc[t] = "idle"
  /\ pc' = [pc EXCEPT ![t] = "line11"]
  /\ args' = [args EXCEPT ![t] = a]
  /\ UNCHANGED <<ctor, self, cls, frame, ret, cache, log>>

Line11(t) ==
  /\ pc[t] = "line11"
  /\ LET rs == Line11Rs(args[t].M, args[t].C, args[t].G)
     IN  IF IsExc(rs)
         THEN /\ pc' = [pc EXCEPT ![t] = "raised"]
              /\ ret' = [ret EXCEPT ![t] = Raised(rs)]
              /\ frame' = frame
         ELSE /\ pc' = [pc EXCEPT ![t] = "line12"]
              /\ frame' = [frame EXCEPT ![FrameOf(t)].rs = rs]
              /\ ret' = ret
  /\ UNCHANGED <<ctor, self, cls, args, cache, log>>

Line12(t) ==
  /\ pc[t] = "line12"
  /\ LET m == Line12M(self.alpha, frame[FrameOf(t)].rs, args[t].r)
     IN  IF IsExc(m)
         THEN /\ pc' = [pc EXCEPT ![t] = "raised"]
              /\ ret' = [ret EXCEPT ![t] = Raised(m)]
              /\ frame' = frame
         ELSE /\ pc' = [pc EXCEPT ![t] = "line13"]
              /\ frame' = [frame EXCEPT ![FrameOf(t)].m = m]
              /\ ret' = ret
  /\ UNCHANGED <<ctor, self, cls, args, cache, log>>

Line13(t) ==
  /\ pc[t] = "line13"
  /\ LET out == TupleOutcome(Line13Tuple(frame[FrameOf(t)].m, args[t].r))
     IN  /\ pc' = [pc EXCEPT ![t] = IF out.exc = "" THEN "returned" ELSE "raised"]
         /\ ret' = [ret EXCEPT ![t] = out]
  /\ self' = SelfAfterCall(self)
  /\ UNCHANGED <<ctor, cls, args, frame, cache, log>>

\* the caller takes the outcome; the call's frame is gone
Done(t) ==
  /\ pc[t] \in {"returned", "raised"}
  /\ pc' = [pc EXCEPT ![t] = "idle"]
  /\ args' = [args EXCEPT ![t] = NoArgs]
  /\ frame' = [frame EXCEPT ![FrameOf(t)] = NoFrame]
  /\ ret' = [ret EXCEPT ![t] = NoRet]
  /\ UNCHANGED <<ctor, self, cls, cache, log>>

(* ------------------------------------------------------------------ *)
(* Inputs                                                             *)
(* ------------------------------------------------------------------ *)

MinusEps == Fin(1, Unit \div 8)

NegZero == Fin(1, 0)

Ten == FromInt(10)

AlphaInputs == {Zero, NegZero, MinusEps, Half, Ten}

RInputs ==
  {T0(v) : v \in {Zero, Tiny, Half, One, FromInt(2), FromInt(4), FromInt(-1), Huge}}
    \cup {T1(q) : q \in UNION {[1..L -> {Zero, FromInt(2)}] : L \in 1..MaxLen}}

MInputs ==
  {Py(One), Py(Half), T0(FromInt(2)), T0(Zero)}
    \cup {T1([i \in 1..L |-> FromInt(i)]) : L \in 2..MaxLen}

CInputs ==
  {Py(One), Py(Zero), Py(Tiny), Py(Huge), T0(One), T0(Zero), T0(FromInt(2)),
   T1(<<One, FromInt(2)>>)}

GInputs == {Py(One), T1(<<FromInt(2), One>>)}

Calls ==
  {[r |-> r, M |-> M, C |-> C, G |-> G, memo |-> FALSE] :
     r \in RInputs, M \in MInputs, C \in CInputs, G \in GInputs}

(* ------------------------------------------------------------------ *)
(* One caller: construction, then any sequence of get_metric calls    *)
(* ------------------------------------------------------------------ *)

InitWith(alphas) ==
  /\ ctor \in alphas
  /\ self = Construct(ctor)
  /\ cls = ClassAttrs
  /\ pc = [t \in Threads |-> "idle"]
  /\ args = [t \in Threads |-> NoArgs]
  /\ frame = [t \in Threads |-> NoFrame]
  /\ ret = [t \in Threads |-> NoRet]
  /\ cache = <<>>
  /\ log = <<>>

Init == InitWith(AlphaInputs)

Next ==
  \/ \E a \in Calls : Call(1, a)
  \/ Line11(1)
  \/ Line12(1)
  \/ Line13(1)
  \/ Done(1)

Spec == Init /\ [][Next]_vars

(* ------------------------------------------------------------------ *)
(* Properties of one call                                             *)
(* ------------------------------------------------------------------ *)

\* the call of thread 1 has returned a tuple
HasReturned == pc[1] = "returned"

NonZero(v) == \A i \in 1..Len(v.data) : ~IsZero(v.data[i])
HasZero(v) == \E i \in 1..Len(v.data) : IsZero(v.data[i])

\* the Schwarzschild radius and x = rs/r at position i, in scalar arithmetic
RsAt(a, i) ==
  FDiv(FMul(FMul(FromInt(2), Elem(a.G, i)), Elem(a.M, i)), FSquare(Elem(a.C, i)))
XAt(a, i) == FDiv(RsAt(a, i), Elem(a.r, i))

AlphaValue == self.alpha.data[1]

MaxOf(S) == CHOOSE x \in S : \A y \in S : y <= x
\* the number of positions the four arguments broadcast to
BroadcastNumel(a) ==
  MaxOf({Len(a.r.data), Len(a.M.data), Len(a.C.data), Len(a.G.data)})

\* C1: for non-zero r, M_param, C_param, G_param, a returned tuple has
\* component 0 = -(1 - x + alpha*x^4) at every position, with
\* rs = 2*G*M/C^2 and x = rs/r, component 2 = r^2 and component 3 all zeros
\* with the shape of r.
C1_MetricFormula ==
  (/\ HasReturned
   /\ NonZero(args[1].r) /\ NonZero(args[1].M)
   /\ NonZero(args[1].C) /\ NonZero(args[1].G))
  => LET a == args[1]
         v == ret[1].val
     IN  /\ Len(v) = 4
         /\ Len(v[1].data) = BroadcastNumel(a)
         /\ \A i \in 1..Len(v[1].data) :
              v[1].data[i] =
                FNeg(FAdd(FSub(One, XAt(a, i)), FMul(AlphaValue, FPow4(XAt(a, i)))))
         /\ v[3].shape = a.r.shape
         /\ \A i \in 1..Len(a.r.data) : v[3].data[i] = FMul(a.r.data[i], a.r.data[i])
         /\ v[4].shape = a.r.shape
         /\ Len(v[4].data) = Len(a.r.data)
         /\ \A i \in 1..Len(a.r.data) : v[4].data[i] = Zero

\* a returned call on non-zero inputs in which the quartic term changes a
\* finite component 0
C1_Witness ==
  /\ HasReturned
  /\ NonZero(args[1].r) /\ NonZero(args[1].M)
  /\ NonZero(args[1].C) /\ NonZero(args[1].G)
  /\ IsFinite(ret[1].val[1].data[1])
  /\ ret[1].val[1].data[1] # FNeg(FSub(One, XAt(args[1], 1)))

\* m + EPSILON at position i of a returned tuple, m being the negation of
\* component 0
YAt(v, i) == FAdd(FNeg(v[1].data[i]), EPSILON)

\* c * y = 1 within the relative rounding error 2^-PrecBits of one
\* correctly rounded operation (the product taken exactly)
ApproxInverse(c, y) ==
  /\ IsFinite(c) /\ IsFinite(y)
  /\ c.s = y.s
  /\ LET diff == c.n * y.n - Unit * Unit
     IN  (IF diff < 0 THEN -diff ELSE diff) * 2^PrecBits <= Unit * Unit

\* a finite value that is not subnormal
IsNormal(c) == IsFinite(c) /\ c.n >= 2^(PrecBits - 1)

\* C2 as stated: at every position where m + EPSILON != 0, component 1
\* times (m + EPSILON) is 1 within tolerance.
C2_InverseEverywhere ==
  HasReturned =>
    LET v == ret[1].val
    IN  \A i \in 1..Len(v[1].data) :
          ~IsZero(YAt(v, i)) => ApproxInverse(v[2].data[i], YAt(v, i))

\* C2 amended: at every position where m + EPSILON is finite and non-zero
\* and its reciprocal is a normal number (it neither overflows nor
\* underflows), component 1 times (m + EPSILON) is 1 within the rounding
\* error of one operation.
C2_InverseWhereFinite ==
  HasReturned =>
    LET v == ret[1].val
    IN  /\ Len(v[2].data) = Len(v[1].data)
        /\ \A i \in 1..Len(v[1].data) :
             (/\ IsFinite(YAt(v, i)) /\ ~IsZero(YAt(v, i))
              /\ IsNormal(v[2].data[i]))
             => ApproxInverse(v[2].data[i], YAt(v, i))

\* a returned call where m + EPSILON is finite and non-zero, component 1 is
\* normal and not 1 itself
C2_Witness ==
  /\ HasReturned
  /\ IsFinite(YAt(ret[1].val, 1)) /\ ~IsZero(YAt(ret[1].val, 1))
  /\ IsNormal(ret[1].val[2].data[1])
  /\ ret[1].val[2].data[1] # One
  /\ YAt(ret[1].val, 1).n * ret[1].val[2].data[1].n # Unit * Unit

IsZeroAlpha == IsZero(AlphaValue)

\* C3 as stated: with alpha = 0 component 0 is -(1 - rs/r) for every input.
C3_SchwarzschildEverywhere ==
  (HasReturned /\ IsZeroAlpha) =>
    LET a == args[1]
        v == ret[1].val
    IN  \A i \in 1..Len(v[1].data) :
          v[1].data[i] = FNeg(FSub(One, XAt(a, i)))

\* C3 amended: with alpha = 0 component 0 is -(1 - rs/r) at every position
\* where (rs/r)^4 is finite; where it is not (r = 0, or the fourth power
\* overflows) the quartic term is 0 * inf and component 0 is NaN.
C3_SchwarzschildWhereFinite ==
  (HasReturned /\ IsZeroAlpha) =>
    LET a == args[1]
        v == ret[1].val
    IN  \A i \in 1..Len(v[1].data) :
          IF IsFinite(FPow4(XAt(a, i)))
          THEN v[1].data[i] = FNeg(FSub(One, XAt(a, i)))
          ELSE IsNaN(v[1].data[i])

\* alpha = 0, a returned call with a finite non-zero x and component 0 not 0
C3_Witness ==
  /\ HasReturned /\ IsZeroAlpha
  /\ IsFinite(FPow4(XAt(args[1], 1))) /\ ~IsZero(XAt(args[1], 1))
  /\ IsFinite(ret[1].val[1].data[1]) /\ ~IsZero(ret[1].val[1].data[1])

\* C8 as stated: all four components of a returned tuple have the shape of r.
C8_AllShapedLikeR ==
  HasReturned => \A k \in 1..4 : ret[1].val[k].shape = args[1].r.shape

Rank(v) == Len(v.shape)
\* the shape r, M_param, C_param and G_param broadcast to
BroadcastOfArgs(a) ==
  IF Rank(a.r) = 0 /\ Rank(a.M) = 0 /\ Rank(a.C) = 0 /\ Rank(a.G) = 0
  THEN <<>>
  ELSE <<BroadcastNumel(a)>>

\* every parameter is a scalar or broadcasts to the shape of r without
\* enlarging it
ParamsFitR(a) ==
  \A p \in {a.M, a.C, a.G} :
    \/ p.kind = "py"
    \/ Rank(p) = 0
    \/ (Rank(a.r) = 1 /\ p.shape[1] \in {1, a.r.shape[1]})

\* C8 amended: components 2 and 3 have the shape of r; components 0 and 1
\* have the shape r and the three parameters broadcast to, which is the
\* shape of r when every parameter is a scalar or broadcasts to r's shape.
C8_ShapesBroadcast ==
  HasReturned =>
    LET a == args[1]
        v == ret[1].val
    IN  /\ v[3].shape = a.r.shape /\ Len(v[3].data) = Numel(a.r.shape)
        /\ v[4].shape = a.r.shape /\ Len(v[4].data) = Numel(a.r.shape)
        /\ v[1].shape = BroadcastOfArgs(a) /\ Len(v[1].data) = BroadcastNumel(a)
        /\ v[2].shape = BroadcastOfArgs(a) /\ Len(v[2].data) = BroadcastNumel(a)
        /\ ParamsFitR(a) => \A k \in 1..4 : v[k].shape = a.r.shape

\* a returned call with a one-dimensional r and a parameter tensor of r's
\* length
C8_Witness ==
  /\ HasReturned
  /\ Rank(args[1].r) = 1 /\ args[1].r.shape[1] > 1
  /\ args[1].G.kind = "t" /\ args[1].G.shape = args[1].r.shape
  /\ ParamsFitR(args[1])

\* Python's scalar arithmetic raises while computing rs: C_param**2 overflows,
\* or 2*G_param*M_param is a Python float divided by a C_param**2 of zero
PythonRaises(a) ==
  /\ a.C.kind = "py"
  /\ \/ (IsFinite(a.C.data[1]) /\ IsInf(FSquare(a.C.data[1])))
     \/ (a.G.kind = "py" /\ a.M.kind = "py" /\ IsZero(FSquare(a.C.data[1])))

\* the four arguments broadcast together
ShapesAgree(a) ==
  Cardinality({Len(p.data) : p \in {a.r, a.M, a.C, a.G}} \ {1}) <= 1

InCall == pc[1] # "idle"

\* what C9 says of a returned tuple: non-finite values at the positions
\* where r is zero
NonFiniteWhereRZero(a, v) ==
  \A i \in 1..Len(v[1].data) : IsZero(Elem(a.r, i)) => ~IsFinite(v[1].data[i])

Magnitudes ==
  {n \in 0..MaxMag : \E k \in 0..TopShift, q \in 0..(2^PrecBits - 1) : n = q * 2^k}

FiniteFloats == {Fin(sg, n) : sg \in {0, 1}, n \in Magnitudes}

NameCalls ==
  {[r |-> T0(FromInt(2)), M |-> Py(One), C |-> C, G |-> Py(One), memo |-> FALSE] :
     C \in {Py(One), Py(Zero)}}

InitName == InitWith(FiniteFloats)

NextName ==
  \/ \E a \in NameCalls : Call(1, a)
  \/ Line11(1)
  \/ Line12(1)
  \/ Line13(1)
  \/ Done(1)

SpecName == InitName /\ [][NextName]_vars

IsDigit(ch) == \E d \in 1..10 : DigitChars[d] = ch
DigitValue(ch) == (CHOOSE d \in 1..10 : DigitChars[d] = ch) - 1

RECURSIVE DecimalValue(_)
DecimalValue(q) ==
  IF q = <<>> THEN 0
  ELSE 10 * DecimalValue(SubSeq(q, 1, Len(q) - 1)) + DigitValue(q[Len(q)])

Abs(i) == IF i < 0 THEN -i ELSE i

\* C6: the name is "Einstein Final (Torsional, α=" + signed-2-decimal(alpha)
\* + ")": a sign that is always written, the integer digits, a point and
\* exactly two decimals, the number being alpha rounded to the nearest
\* hundredth; alpha = 0.0 gives "...α=+0.00)".
C6_NameFormat ==
  LET name == self.name
      body == SubSeq(name, Len(Prefix) + 1, Len(name) - 1)
      n == Len(body)
      whole == SubSeq(body, 2, n - 3)
      frac == SubSeq(body, n - 1, n)
  IN  /\ Len(name) >= Len(Prefix) + 6
      /\ SubSeq(name, 1, Len(Prefix)) = Prefix
      /\ name[Len(name)] = ")"
      /\ body[1] \in {"+", "-"}
      /\ (ctor.n > 0 /\ ctor.s = 1) => body[1] = "-"
      /\ (ctor.n > 0 /\ ctor.s = 0) => body[1] = "+"
      /\ body[n - 2] = "."
      /\ Len(whole) >= 1
      /\ \A i \in 1..Len(whole) : IsDigit(whole[i])
      /\ Len(whole) > 1 => whole[1] # "0"
      /\ \A i \in 1..2 : IsDigit(frac[i])
      /\ 2 * Abs((100 * DecimalValue(whole) + DecimalValue(frac)) * Unit - 100 * ctor.n)
           <= Unit
      /\ ctor = Zero => name = Prefix \o <<"+", "0", ".", "0", "0", ")">>

\* a negative alpha that is no whole number of hundredths, its instance in use
C6_Witness ==
  /\ ctor.s = 1
  /\ (100 * ctor.n) % Unit # 0
  /\ HasReturned

(* ------------------------------------------------------------------ *)
(* Several threads calling get_metric on one instance                 *)
(* ------------------------------------------------------------------ *)

ConcCalls ==
  {[r |-> r, M |-> Py(One), C |-> Py(One), G |-> G, memo |-> FALSE] :
     r \in {T0(One), T0(FromInt(2)), T1(<<Zero, FromInt(2)>>)},
     G \in {Py(One), T0(Half)}}

InitConc == InitWith({MinusEps, Ten})

NextConc ==
  \E t \in Threads :
    \/ \E a \in ConcCalls : Call(t, a)
    \/ Line11(t)
    \/ Line12(t)
    \/ Line13(t)
    \/ Done(t)

SpecConc == InitConc /\ [][NextConc]_vars

\* C7: under any interleaving of the threads' calls, each call ends with
\* exactly the outcome it has when run alone with its arguments on the
\* instance as constructed, and the instance is never written.
C7_InterleavingInvisible ==
  /\ self = Construct(ctor)
  /\ \A t \in Threads :
       pc[t] \in {"returned", "raised"} => ret[t] = GetMetric(Construct(ctor), args[t])

\* thread 1 has returned while thread 2, called with other arguments, is
\* between its lines 12 and 13
C7_Witness ==
  /\ pc[1] = "returned"
  /\ pc[2] = "line13"
  /\ args[1] # args[2]
  /\ frame[FrameOf(1)].m # frame[FrameOf(2)].m

(* ------------------------------------------------------------------ *)
(* A caller that memoizes, beside direct calls                        *)
(* ------------------------------------------------------------------ *)

\* the cache key: (model identity, r, M_param, C_param, G_param)
SelfId == "EinsteinFinalTorsional#1"
Key(a) == <<SelfId, a.r, a.M, a.C, a.G>>
ArgsOfKey(k) == [r |-> k[2], M |-> k[3], C |-> k[4], G |-> k[5], memo |-> FALSE]

\* a lookup: a hit answers from the memo, a miss calls get_metric
CachedCall(t, a) ==
  /\ pc[t] = "idle"
  /\ cls.cacheable
  /\ args' = [args EXCEPT ![t] = [a EXCEPT !.memo = TRUE]]
  /\ IF Key(a) \in DOMAIN cache
     THEN /\ pc' = [pc EXCEPT ![t] = "returned"]
          /\ ret' = [ret EXCEPT ![t] = Returned(cache[Key(a)])]
     ELSE /\ pc' = [pc EXCEPT ![t] = "line11"]
          /\ ret' = ret
  /\ UNCHANGED <<ctor, self, cls, frame, cache, log>>

\* the caller takes the outcome: a returned tuple of a lookup is memoized,
\* and the first outcome seen for each input is noted
Finish(t) ==
  /\ pc[t] \in {"returned", "raised"}
  /\ cache' = IF args[t].memo /\ pc[t] = "returned" /\ Key(args[t]) \notin DOMAIN cache
              THEN cache @@ (Key(args[t]) :> ret[t].val)
              ELSE cache
  /\ log' = IF Key(args[t]) \in DOMAIN log
            THEN log
            ELSE log @@ (Key(args[t]) :> ret[t])
  /\ pc' = [pc EXCEPT ![t] = "idle"]
  /\ args' = [args EXCEPT ![t] = NoArgs]
  /\ frame' = [frame EXCEPT ![FrameOf(t)] = NoFrame]
  /\ ret' = [ret EXCEPT ![t] = NoRet]
  /\ UNCHANGED <<ctor, self, cls>>

CacheCalls ==
  {[r |-> r, M |-> Py(One), C |-> C, G |-> Py(One), memo |-> FALSE] :
     r \in {T0(FromInt(2)), T1(<<Zero, FromInt(2)>>)},
     C \in {Py(One), Py(Zero), T0(Zero)}}

InitCache == InitWith({MinusEps, Ten})

NextCache ==
  \/ \E a \in CacheCalls : Call(1, a)
  \/ \E a \in CacheCalls : CachedCall(1, a)
  \/ Line11(1)
  \/ Line12(1)
  \/ Line13(1)
  \/ Finish(1)

SpecCache == InitCache /\ [][NextCache]_vars

Ended == pc[1] \in {"returned", "raised"}

\* C4: a call ends with the outcome first seen for the same inputs,
\* whatever calls were made before or between.
C4_Deterministic ==
  (Ended /\ Key(args[1]) \in DOMAIN log) => ret[1] = log[Key(args[1])]

\* a direct call has returned a second time for its inputs, after calls
\* with other inputs
C4_Witness ==
  /\ HasReturned
  /\ ~args[1].memo
  /\ Key(args[1]) \in DOMAIN log
  /\ Cardinality(DOMAIN log) >= 3

\* C5: in every state after construction, alpha and name are as the
\* constructor set them and the class attributes sweep and cacheable are
\* as the class body set them.
C5_InstanceFixed ==
  /\ self.alpha = AsTensor(ctor)
  /\ self.name = NameOf(ctor)
  /\ cls = [sweep |-> "None", cacheable |-> TRUE]

\* a call has returned after calls with two other inputs ended
C5_Witness ==
  /\ HasReturned
  /\ Cardinality(DOMAIN log \ {Key(args[1])}) >= 2

\* C10: cacheable is true, and every memoized tuple, and every tuple a
\* lookup answers with, is the tuple a fresh get_metric call with those
\* inputs returns.
C10_CacheAgrees ==
  /\ cls.cacheable = TRUE
  /\ \A k \in DOMAIN cache :
       GetMetric(self, ArgsOfKey(k)) = Returned(cache[k])
  /\ (HasReturned /\ args[1].memo) => ret[1] = GetMetric(self, args[1])

\* a lookup answered from the memo, which holds two inputs
C10_Witness ==
  /\ HasReturned
  /\ args[1].memo
  /\ Key(args[1]) \in DOMAIN cache
  /\ Cardinality(DOMAIN cache) >= 2

====
